---- MODULE Spec2Model ----
(***************************************************************************)
(* Model of ss.py: the script that materialises the empty directory/file   *)
(* skeleton "wattschain-mlm-platform" in the current working directory.    *)
(*                                                                         *)
(* A path is the sequence of its components ("a/b/c" is <<"a","b","c">>);  *)
(* the empty sequence is the empty string "".  The filesystem below the    *)
(* current working directory is a set of directories and a function from   *)
(* regular-file paths to their contents.                                   *)
(***************************************************************************)
EXTENDS Naturals, Sequences, FiniteSets, TLC

VARIABLES
  dirs,      \* set of paths that are directories
  files,     \* function: path of a regular file |-> its content
  pc,        \* "idle" | "running" | "done" | "aborted" : state of the process
  pos,       \* index into Steps of the next filesystem call of the run
  error,     \* exception that ended the run, "none" while there is none
  printed,   \* the success message has been printed by this execution
  prevOK,    \* an earlier execution on this tree has completed successfully
  pending,   \* generated files written out-of-band since the last run ended
  edited,    \* generated files written out-of-band before the current run
  arg,       \* arguments of a direct call of create_file (SpecCF)
  todo,      \* steps not yet executed (SpecPerm)
  order,     \* steps executed so far, in execution order (SpecPerm)
  start      \* filesystem at the start of the permuted run (SpecPerm)

vars == <<dirs, files, pc, pos, error, printed, prevOK, pending, edited,
          arg, todo, order, start>>

(***************************************************************************)
(* Bounds.                                                                 *)
(***************************************************************************)
MaxEdits == 1     \* out-of-band writes between two runs
PermLen == 6      \* number of steps of the tree that SpecPerm permutes

(***************************************************************************)
(* The hardcoded tree.                                                     *)
(***************************************************************************)
BaseDir == "wattschain-mlm-platform"

RootFiles ==
  << <<"README.md">>,
     <<"package.json">>,
     <<"next.config.js">>,
     <<"tailwind.config.ts">>,
     <<"postcss.config.js">>,
     <<".env.local">>,
     <<".env.example">>,
     <<".gitignore">>,
     <<"tsconfig.json">>,
     <<"components.json">>,
     <<"middleware.ts">>,
     <<"docker-compose.yml">> >>

PublicDirs ==
  << <<"public", "images", "payment-methods">>,
     <<"public", "locales", "en">>,
     <<"public", "locales", "sw">> >>

PublicFiles ==
  << <<"public", "favicon.ico">>,
     <<"public", "logo.png">>,
     <<"public", "wattschain-logo.svg">>,
     <<"public", "images", "kyc-verification.png">>,
     <<"public", "images", "token-icon.png">>,
     <<"public", "locales", "en", "common.json">>,
     <<"public", "locales", "sw", "common.json">> >>

SrcDirs ==
  << <<"src", "app", "(marketing)", "about">>,
     <<"src", "app", "(marketing)", "whitepaper">>,
     <<"src", "app", "(marketing)", "legal", "[type]">>,
     <<"src", "app", "(marketing)", "contact">>,
     <<"src", "app", "(auth)", "login">>,
     <<"src", "app", "(auth)", "register">>,
     <<"src", "app", "(auth)", "forgot-password">>,
     <<"src", "app", "(auth)", "verify-email">>,
     <<"src", "app", "(auth)", "invite", "[code]">>,
     <<"src", "app", "(dashboard)", "dashboard">>,
     <<"src", "app", "(dashboard)", "profile">>,
     <<"src", "app", "(dashboard)", "wallet">>,
     <<"src", "app", "(dashboard)", "transactions">>,
     <<"src", "app", "(dashboard)", "token-purchase", "checkout">>,
     <<"src", "app", "(dashboard)", "token-purchase", "payment", "[ivisethod]">>,
     <<"src", "app", "(dashboard)", "token-purchase", "success">>,
     <<"src", "app", "(dashboard)", "affiliate", "tree">>,
     <<"src", "app", "(dashboard)", "affiliate", "commissions">>,
     <<"src", "app", "(dashboard)", "affiliate", "referrals">>,
     <<"src", "app", "(dashboard)", "affiliate", "withdraw">>,
     <<"src", "app", "(dashboard)", "kyc", "verification">>,
     <<"src", "app", "(dashboard)", "kyc", "status">>,
     <<"src", "app", "(dashboard)", "support", "tickets">>,
     <<"src", "app", "(dashboard)", "support", "faq">>,
     <<"src", "app", "(admin)", "admin", "users">>,
     <<"src", "app", "(admin)", "admin", "mlm", "tree-audit">>,
     <<"src", "app", "(admin)", "admin", "mlm", "commissions">>,
     <<"src", "app", "(admin)", "admin", "mlm", "settings">>,
     <<"src", "app", "(admin)", "admin", "transactions">>,
     <<"src", "app", "(admin)", "admin", "kyc-reviews">>,
     <<"src", "app", "(admin)", "admin", "token-pricing">>,
     <<"src", "app", "(admin)", "admin", "reports">>,
     <<"src", "app", "api", "auth">>,
     <<"src", "app", "api", "user">>,
     <<"src", "app", "api", "token">>,
     <<"src", "app", "api", "payment", "mpesa", "[action]">>,
     <<"src", "app", "api", "payment", "crypto", "[action]">>,
     <<"src", "app", "api", "payment", "stripe", "[action]">>,
     <<"src", "app", "api", "mlm">>,
     <<"src", "app", "api", "kyc">>,
     <<"src", "app", "api", "admin">>,
     <<"src", "app", "api", "webhooks", "payment", "[provider]">>,
     <<"src", "app", "api", "webhooks", "kyc">>,
     <<"src", "components", "ui">>,
     <<"src", "components", "layout">>,
     <<"src", "components", "auth">>,
     <<"src", "components", "dashboard">>,
     <<"src", "components", "token">>,
     <<"src", "components", "mlm">>,
     <<"src", "components", "kyc">>,
     <<"src", "components", "admin">>,
     <<"src", "components", "payments">>,
     <<"src", "components", "common">>,
     <<"src", "lib">>,
     <<"src", "types">>,
     <<"src", "models">>,
     <<"src", "hooks">>,
     <<"src", "context">>,
     <<"src", "store">>,
     <<"src", "middleware">> >>

SrcFiles ==
  << <<"src", "app", "globals.css">>,
     <<"src", "app", "layout.tsx">>,
     <<"src", "app", "page.tsx">>,
     <<"src", "app", "loading.tsx">>,
     <<"src", "app", "error.tsx">>,
     <<"src", "app", "not-found.tsx">>,
     <<"src", "app", "(marketing)", "layout.tsx">>,
     <<"src", "app", "(marketing)", "about", "page.tsx">>,
     <<"src", "app", "(marketing)", "whitepaper", "page.tsx">>,
     <<"src", "app", "(marketing)", "legal", "[type]", "page.tsx">>,
     <<"src", "app", "(marketing)", "contact", "page.tsx">>,
     <<"src", "app", "(auth)", "layout.tsx">>,
     <<"src", "app", "(auth)", "login", "page.tsx">>,
     <<"src", "app", "(auth)", "register", "page.tsx">>,
     <<"src", "app", "(auth)", "forgot-password", "page.tsx">>,
     <<"src", "app", "(auth)", "verify-email", "page.tsx">>,
     <<"src", "app", "(auth)", "invite", "[code]", "page.tsx">>,
     <<"src", "app", "(dashboard)", "layout.tsx">>,
     <<"src", "app", "(dashboard)", "dashboard", "page.tsx">>,
     <<"src", "app", "(dashboard)", "profile", "page.tsx">>,
     <<"src", "app", "(dashboard)", "wallet", "page.tsx">>,
     <<"src", "app", "(dashboard)", "transactions", "page.tsx">>,
     <<"src", "app", "(dashboard)", "token-purchase", "page.tsx">>,
     <<"src", "app", "(dashboard)", "token-purchase", "checkout", "page.tsx">>,
     <<"src", "app", "(dashboard)", "token-purchase", "payment", "[method]", "page.tsx">>,
     <<"src", "app", "(dashboard)", "token-purchase", "success", "page.tsx">>,
     <<"src", "app", "(dashboard)", "affiliate", "page.tsx">>,
     <<"src", "app", "(dashboard)", "affiliate", "tree", "page.tsx">>,
     <<"src", "app", "(dashboard)", "affiliate", "commissions", "page.tsx">>,
     <<"src", "app", "(dashboard)", "affiliate", "referrals", "page.tsx">>,
     <<"src", "app", "(dashboard)", "affiliate", "withdraw", "page.tsx">>,
     <<"src", "app", "(dashboard)", "kyc", "page.tsx">>,
     <<"src", "app", "(dashboard)", "kyc", "verification", "page.tsx">>,
     <<"src", "app", "(dashboard)", "kyc", "status", "page.tsx">>,
     <<"src", "app", "(dashboard)", "support", "page.tsx">>,
     <<"src", "app", "(dashboard)", "support", "tickets", "page.tsx">>,
     <<"src", "app", "(dashboard)", "support", "faq", "page.tsx">>,
     <<"src", "app", "(admin)", "layout.tsx">>,
     <<"src", "app", "(admin)", "admin", "page.tsx">>,
     <<"src", "app", "(admin)", "admin", "users", "page.tsx">>,
     <<"src", "app", "(admin)", "admin", "mlm", "page.tsx">>,
     <<"src", "app", "(admin)", "admin", "mlm", "tree-audit", "page.tsx">>,
     <<"src", "app", "(admin)", "admin", "mlm", "commissions", "page.tsx">>,
     <<"src", "app", "(admin)", "admin", "mlm", "settings", "page.tsx">>,
     <<"src", "app", "(admin)", "admin", "transactions", "page.tsx">>,
     <<"src", "app", "(admin)", "admin", "kyc-reviews", "page.tsx">>,
     <<"src", "app", "(admin)", "admin", "token-pricing", "page.tsx">>,
     <<"src", "app", "(admin)", "admin", "reports", "page.tsx">>,
     <<"src", "app", "api", "auth", "login", "route.ts">>,
     <<"src", "app", "api", "auth", "register", "route.ts">>,
     <<"src", "app", "api", "auth", "logout", "route.ts">>,
     <<"src", "app", "api", "auth", "verify-email", "route.ts">>,
     <<"src", "app", "api", "user", "profile", "route.ts">>,
     <<"src", "app", "api", "user", "wallet", "route.ts">>,
     <<"src", "app", "api", "user", "transactions", "route.ts">>,
     <<"src", "app", "api", "token", "purchase", "route.ts">>,
     <<"src", "app", "api", "token", "price", "route.ts">>,
     <<"src", "app", "api", "token", "balance", "route.ts">>,
     <<"src", "app", "api", "payment", "mpesa", "[action]", "route.ts">>,
     <<"src", "app", "api", "payment", "crypto", "[action]", "route.ts">>,
     <<"src", "app", "api", "payment", "stripe", "[action]", "route.ts">>,
     <<"src", "app", "api", "mlm", "tree", "route.ts">>,
     <<"src", "app", "api", "mlm", "commissions", "route.ts">>,
     <<"src", "app", "api", "mlm", "referrals", "route.ts">>,
     <<"src", "app", "api", "mlm", "withdraw", "route.ts">>,
     <<"src", "app", "api", "mlm", "validate-referral", "route.ts">>,
     <<"src", "app", "api", "kyc", "submit", "route.ts">>,
     <<"src", "app", "api", "kyc", "status", "route.ts">>,
     <<"src", "app", "api", "kyc", "shuftipro-webhook", "route.ts">>,
     <<"src", "app", "api", "admin", "users", "route.ts">>,
     <<"src", "app", "api", "admin", "mlm", "[action]", "route.ts">>,
     <<"src", "app", "api", "admin", "transactions", "route.ts">>,
     <<"src", "app", "api", "admin", "kyc-reviews", "route.ts">>,
     <<"src", "app", "api", "admin", "token-pricing", "route.ts">>,
     <<"src", "app", "api", "admin", "reports", "route.ts">>,
     <<"src", "app", "api", "webhooks", "payment", "[provider]", "route.ts">>,
     <<"src", "app", "api", "webhooks", "kyc", "shuftipro", "route.ts">>,
     <<"src", "components", "ui", "button.tsx">>,
     <<"src", "components", "ui", "input.tsx">>,
     <<"src", "components", "ui", "card.tsx">>,
     <<"src", "components", "ui", "dialog.tsx">>,
     <<"src", "components", "ui", "table.tsx">>,
     <<"src", "components", "ui", "badge.tsx">>,
     <<"src", "components", "ui", "alert.tsx">>,
     <<"src", "components", "ui", "toast.tsx">>,
     <<"src", "components", "ui", "select.tsx">>,
     <<"src", "components", "ui", "textarea.tsx">>,
     <<"src", "components", "ui", "spinner.tsx">>,
     <<"src", "components", "layout", "Header.tsx">>,
     <<"src", "components", "layout", "Footer.tsx">>,
     <<"src", "components", "layout", "Sidebar.tsx">>,
     <<"src", "components", "layout", "DashboardLayout.tsx">>,
     <<"src", "components", "auth", "LoginForm.tsx">>,
     <<"src", "components", "auth", "RegisterForm.tsx">>,
     <<"src", "components", "auth", "ProtectedRoute.tsx">>,
     <<"src", "components", "auth", "KYCStatus.tsx">>,
     <<"src", "components", "dashboard", "DashboardStats.tsx">>,
     <<"src", "components", "dashboard", "WalletBalance.tsx">>,
     <<"src", "components", "dashboard", "RecentTransactions.tsx">>,
     <<"src", "components", "token", "TokenPurchaseForm.tsx">>,
     <<"src", "components", "token", "PresalePricing.tsx">>,
     <<"src", "components", "token", "PaymentMethods.tsx">>,
     <<"src", "components", "mlm", "ReferralTree.tsx">>,
     <<"src", "components", "mlm", "CommissionTracker.tsx">>,
     <<"src", "components", "mlm", "ReferralLink.tsx">>,
     <<"src", "components", "mlm", "WithdrawForm.tsx">>,
     <<"src", "components", "mlm", "LockPeriodDisplay.tsx">>,
     <<"src", "components", "kyc", "KYCForm.tsx">>,
     <<"src", "components", "kyc", "DocumentUpload.tsx">>,
     <<"src", "components", "kyc", "VerificationStatus.tsx">>,
     <<"src", "components", "admin", "UserManagement.tsx">>,
     <<"src", "components", "admin", "MLMTreeViewer.tsx">>,
     <<"src", "components", "admin", "CommissionManager.tsx">>,
     <<"src", "components", "admin", "KYCReviewPanel.tsx">>,
     <<"src", "components", "admin", "PresalePricingManager.tsx">>,
     <<"src", "components", "admin", "TransactionMonitor.tsx">>,
     <<"src", "components", "payments", "MPesaPayment.tsx">>,
     <<"src", "components", "payments", "CryptoPayment.tsx">>,
     <<"src", "components", "payments", "StripePayment.tsx">>,
     <<"src", "components", "common", "DataTable.tsx">>,
     <<"src", "components", "common", "LoadingSpinner.tsx">>,
     <<"src", "components", "common", "ErrorBoundary.tsx">>,
     <<"src", "lib", "utils.ts">>,
     <<"src", "lib", "constants.ts">>,
     <<"src", "lib", "validations.ts">>,
     <<"src", "lib", "auth.ts">>,
     <<"src", "lib", "database.ts">>,
     <<"src", "lib", "payments.ts">>,
     <<"src", "lib", "kyc.ts">>,
     <<"src", "lib", "mlm.ts">>,
     <<"src", "lib", "email.ts">>,
     <<"src", "lib", "presale-pricing.ts">>,
     <<"src", "types", "index.ts">>,
     <<"src", "types", "auth.ts">>,
     <<"src", "types", "user.ts">>,
     <<"src", "types", "transaction.ts">>,
     <<"src", "types", "mlm.ts">>,
     <<"src", "types", "kyc.ts">>,
     <<"src", "types", "payment.ts">>,
     <<"src", "types", "presale.ts">>,
     <<"src", "models", "User.ts">>,
     <<"src", "models", "Transaction.ts">>,
     <<"src", "models", "MLMTree.ts">>,
     <<"src", "models", "Commission.ts">>,
     <<"src", "models", "KYC.ts">>,
     <<"src", "models", "Token.ts">>,
     <<"src", "models", "Wallet.ts">>,
     <<"src", "models", "Payment.ts">>,
     <<"src", "models", "PresaleRound.ts">>,
     <<"src", "hooks", "useAuth.ts">>,
     <<"src", "hooks", "useUser.ts">>,
     <<"src", "hooks", "useMLM.ts">>,
     <<"src", "hooks", "useTransactions.ts">>,
     <<"src", "hooks", "useKYC.ts">>,
     <<"src", "hooks", "usePayments.ts">>,
     <<"src", "hooks", "usePresalePricing.ts">>,
     <<"src", "context", "AuthContext.tsx">>,
     <<"src", "context", "UserContext.tsx">>,
     <<"src", "context", "MLMContext.tsx">>,
     <<"src", "store", "authStore.ts">>,
     <<"src", "store", "userStore.ts">>,
     <<"src", "store", "mlmStore.ts">>,
     <<"src", "middleware", "auth.ts">>,
     <<"src", "middleware", "admin.ts">>,
     <<"src", "middleware", "rateLimit.ts">> >>

DocsFiles ==
  << <<"docs", "API.md">>,
     <<"docs", "MLM_LOGIC.md">>,
     <<"docs", "PRESALE_ROUNDS.md">> >>

TestDirs ==
  << <<"tests", "components">>,
     <<"tests", "api">>,
     <<"tests", "lib">> >>

DataDir == <<"data">>

DataFile == <<"data", "presale-pricing.json">>

Default == ""

\* a join with another directory than base_dir
JoinOther(base, p) == <<"other">> \o p

\* os.path.join(base_dir, p)
Join(base, p) == <<base>> \o p

\* os.path.dirname(path)
Dirname(path) == IF path = <<>> THEN <<>> ELSE SubSeq(path, 1, Len(path) - 1)

MkStep(p) == [op |-> "makedirs", path |-> p, content |-> Default]

FileStep(p, c) == [op |-> "create_file", path |-> p, content |-> c]

\* a loop that stops one entry early
DirGroupShort(list) == [i \in 1..(Len(list) - 1) |-> MkStep(Join(BaseDir, list[i]))]

DirGroup(list) == [i \in 1..Len(list) |-> MkStep(Join(BaseDir, list[i]))]

FileGroup(list) == [i \in 1..Len(list) |-> FileStep(Join(BaseDir, list[i]), Default)]

\* The groups of filesystem calls of create_directory_structure, in source order.
Groups ==
  << << MkStep(<<BaseDir>>) >>,
     FileGroup(RootFiles),
     DirGroup(PublicDirs),
     FileGroup(PublicFiles),
     DirGroup(SrcDirs),
     FileGroup(SrcFiles),
     << MkStep(Join(BaseDir, DataDir)) >>,
     << FileStep(Join(BaseDir, DataFile), Default) >>,
     FileGroup(DocsFiles),
     DirGroup(TestDirs) >>

RECURSIVE Concat(_)
Concat(ss) == IF ss = <<>> THEN <<>> ELSE Head(ss) \o Concat(Tail(ss))

IsMakedirs(s) == s.op = "makedirs"

IsCreateFile(s) == s.op = "create_file"

\* all directories first, then all files
StepsDirsFirst ==
  SelectSeq(Concat(Groups), IsMakedirs) \o SelectSeq(Concat(Groups), IsCreateFile)

\* The sequence of filesystem calls one run makes.
Steps == Concat(Groups)

NSteps == Len(Steps)

Range(s) == {s[i] : i \in 1..Len(s)}

DirEntries ==
  {Join(BaseDir, d) : d \in Range(PublicDirs) \cup Range(SrcDirs) \cup {DataDir} \cup Range(TestDirs)}

FileEntries ==
  {Join(BaseDir, f) : f \in Range(RootFiles) \cup Range(PublicFiles) \cup Range(SrcFiles)
                             \cup {DataFile} \cup Range(DocsFiles)}

(***************************************************************************)
(* The filesystem calls.  A result is the filesystem after the call and    *)
(* the exception it raised ("none" when it returned).                      *)
(***************************************************************************)
Ok(fs) == [dirs |-> fs.dirs, files |-> fs.files, err |-> "none"]

Raise(fs, e) == [dirs |-> fs.dirs, files |-> fs.files, err |-> e]

IsDir(fs, p) == p \in fs.dirs

IsFile(fs, p) == p \in DOMAIN fs.files

Exists(fs, p) == IsDir(fs, p) \/ IsFile(fs, p)

ProperPrefixes(p) == {SubSeq(p, 1, k) : k \in 1..(Len(p) - 1)}

\* os.mkdir(name)
Mkdir(fs, name) ==
  IF name = <<>> THEN Raise(fs, "FileNotFoundError")
  ELSE IF \E q \in ProperPrefixes(name) : IsFile(fs, q) THEN Raise(fs, "NotADirectoryError")
  ELSE IF \E q \in ProperPrefixes(name) : ~IsDir(fs, q) THEN Raise(fs, "FileNotFoundError")
  ELSE IF Exists(fs, name) THEN Raise(fs, "FileExistsError")
  ELSE [dirs |-> fs.dirs \cup {name}, files |-> fs.files, err |-> "none"]

\* os.makedirs(name, exist_ok): the head is created first when it is
\* missing, then mkdir(name), whose error is dropped if exist_ok is set and
\* name is a directory.
RECURSIVE MakeDirsX(_, _, _)
MakeDirsX(fs, name, exist_ok) ==
  LET head == Dirname(name)
      r1 == IF head # <<>> /\ name # <<>> /\ ~Exists(fs, head)
            THEN LET r == MakeDirsX(fs, head, exist_ok)
                 IN  IF r.err = "FileExistsError" THEN Ok(r) ELSE r
            ELSE Ok(fs)
  IN  IF r1.err # "none" THEN r1
      ELSE LET m == Mkdir(r1, name)
           IN  IF m.err # "none" /\ exist_ok /\ IsDir(r1, name) THEN Ok(r1) ELSE m

\* os.makedirs(name, exist_ok=True)
MakeDirs(fs, name) == MakeDirsX(fs, name, TRUE)

\* open(path, 'a'): keeps what the file holds and appends.
OpenAppend(fs, path, content) ==
  IF path = <<>> THEN Raise(fs, "FileNotFoundError")
  ELSE IF \E q \in ProperPrefixes(path) : IsFile(fs, q) THEN Raise(fs, "NotADirectoryError")
  ELSE IF \E q \in ProperPrefixes(path) : ~IsDir(fs, q) THEN Raise(fs, "FileNotFoundError")
  ELSE IF IsDir(fs, path) THEN Raise(fs, "IsADirectoryError")
  ELSE [dirs |-> fs.dirs,
        files |-> [q \in DOMAIN fs.files \cup {path} |->
                     IF q = path /\ ~IsFile(fs, path) THEN content
                     ELSE IF q = path /\ content = "" THEN fs.files[q]
                     ELSE IF q = path THEN "appended"
                     ELSE fs.files[q]],
        err |-> "none"]

\* open(path, 'w') followed by f.write(content): creates or truncates.
OpenWrite(fs, path, content) ==
  IF path = <<>> THEN Raise(fs, "FileNotFoundError")
  ELSE IF \E q \in ProperPrefixes(path) : IsFile(fs, q) THEN Raise(fs, "NotADirectoryError")
  ELSE IF \E q \in ProperPrefixes(path) : ~IsDir(fs, q) THEN Raise(fs, "FileNotFoundError")
  ELSE IF IsDir(fs, path) THEN Raise(fs, "IsADirectoryError")
  ELSE [dirs |-> fs.dirs,
        files |-> [q \in DOMAIN fs.files \cup {path} |->
                     IF q = path THEN content ELSE fs.files[q]],
        err |-> "none"]

\* create_file that leaves a file that exists alone.
CreateFileIfMissing(fs, path, content) ==
  LET r == MakeDirs(fs, Dirname(path))
  IN  IF r.err # "none" THEN r
      ELSE IF IsFile(r, path) THEN Ok(r)
      ELSE OpenWrite(r, path, content)

\* create_file without the makedirs of the parent.
CreateFileNoParent(fs, path, content) == OpenWrite(fs, path, content)

\* create_file(path, content)
CreateFile(fs, path, content) ==
  LET r == MakeDirs(fs, Dirname(path))
  IN  IF r.err # "none" THEN r ELSE OpenWrite(r, path, content)

\* the makedirs calls of create_directory_structure without exist_ok
ExecNoExistOk(fs, s) ==
  IF s.op = "makedirs" THEN MakeDirsX(fs, s.path, FALSE)
  ELSE CreateFile(fs, s.path, s.content)

\* One filesystem call of create_directory_structure.
Exec(fs, s) ==
  IF s.op = "makedirs" THEN MakeDirs(fs, s.path)
  ELSE CreateFile(fs, s.path, s.content)

(***************************************************************************)
(* Failures of the host (permission denied, disk full): a call may raise   *)
(* OSError at any of its system calls, keeping what it did before.         *)
(***************************************************************************)
MakeDirsFaults(fs, name) ==
  {Raise(r, "OSError") :
     r \in {MakeDirs(fs, SubSeq(name, 1, k)) : k \in 1..(Len(name) - 1)} \cup {Ok(fs)}}

Faults(fs, s) ==
  LET good(S) == {r \in S : r.err = "none" \/ r.err = "OSError"}
      failed(S) == {Raise(r, "OSError") : r \in good(S)}
  IN  IF s.op = "makedirs" THEN failed(MakeDirsFaults(fs, s.path))
      ELSE failed(MakeDirsFaults(fs, Dirname(s.path)))
             \cup failed({MakeDirs(fs, Dirname(s.path))})
             \cup failed({CreateFile(fs, s.path, Default)})

(***************************************************************************)
(* Filesystems the script may be started on.                               *)
(***************************************************************************)
Root == <<BaseDir>>

Fun(S, c) == [p \in S |-> c]

Prefixes(p) == {SubSeq(p, 1, k) : k \in 1..Len(p)}

Outside ==
  [dirs |-> {<<"other">>},
   files |-> Fun({<<"notes.txt">>, <<"other", "README.md">>}, "x")]

Under(fs, ds, fsx) ==
  [dirs |-> fs.dirs \cup ds,
   files |-> [p \in DOMAIN fs.files \cup DOMAIN fsx |->
                IF p \in DOMAIN fsx THEN fsx[p] ELSE fs.files[p]]]

Fresh == Outside

Partial ==
  Under(Outside, {Root, Join(BaseDir, <<"node_modules">>)},
        Fun({Join(BaseDir, <<"README.md">>), Join(BaseDir, <<"LICENSE">>)}, "x"))

Populated ==
  Under(Outside,
        UNION {Prefixes(d) : d \in DirEntries} \cup UNION {ProperPrefixes(f) : f \in FileEntries}
          \cup {Join(BaseDir, <<"node_modules">>)},
        Fun(FileEntries \cup {Join(BaseDir, <<"LICENSE">>), Join(BaseDir, <<"src", "extra.ts">>)}, "x"))

RootIsFile == Under(Outside, {}, Fun({Root}, "x"))

PublicIsFile == Under(Outside, {Root}, Fun({Join(BaseDir, <<"public">>)}, "x"))

ApiMdIsDir ==
  Under(Outside, {Root, Join(BaseDir, <<"docs">>), Join(BaseDir, <<"docs", "API.md">>)},
        Fun({}, "x"))

TestsIsFile == Under(Outside, {Root}, Fun({Join(BaseDir, <<"tests">>)}, "x"))

\* what is left of an earlier tree: only the directory of one route
LoginOnly ==
  Under(Outside, Prefixes(Join(BaseDir, <<"src", "app", "api", "auth", "login">>)), Fun({}, "x"))

PreStates ==
  {Fresh, Partial, Populated, LoginOnly, RootIsFile, PublicIsFile, ApiMdIsDir, TestsIsFile}

EditContents == {"x", "hello"}

\* One generated file of each kind: a root file, a file in a listed
\* directory, a file whose directory only create_file makes, the data file,
\* a docs file.
EditTargets ==
  {Join(BaseDir, <<"README.md">>),
   Join(BaseDir, <<"public", "locales", "en", "common.json">>),
   Join(BaseDir, <<"src", "app", "api", "auth", "login", "route.ts">>),
   Join(BaseDir, DataFile),
   Join(BaseDir, <<"docs", "API.md">>)}

NoArg == [path |-> <<>>, content |-> Default]

(***************************************************************************)
(* The script: python ss.py                                                *)
(***************************************************************************)
Init ==
  /\ \E fs \in PreStates : dirs = fs.dirs /\ files = fs.files
  /\ pc = "idle"
  /\ pos = 0
  /\ error = "none"
  /\ printed = FALSE
  /\ prevOK = FALSE
  /\ pending = {}
  /\ edited = {}
  /\ arg = NoArg
  /\ todo = {}
  /\ order = <<>>
  /\ start = [dirs |-> {}, files |-> <<>>]

FS == [dirs |-> dirs, files |-> files]

aux == <<arg, todo, order, start>>

\* The process starts: __main__ calls create_directory_structure().
Start ==
  /\ pc \in {"idle", "done"}
  /\ pc' = "running"
  /\ pos' = 1
  /\ error' = "none"
  /\ printed' = FALSE
  /\ edited' = pending
  /\ pending' = {}
  /\ UNCHANGED <<dirs, files, prevOK, aux>>

\* a run that goes on after a call has raised
StepSwallow ==
  /\ pc = "running"
  /\ pos <= NSteps
  /\ LET r == Exec(FS, Steps[pos])
     IN  /\ dirs' = r.dirs
         /\ files' = r.files
         /\ error' = IF r.err = "none" THEN error ELSE r.err
         /\ pc' = "running"
         /\ pos' = pos + 1
  /\ UNCHANGED <<printed, prevOK, pending, edited, aux>>

\* The next filesystem call of the run returns or raises.
Step ==
  /\ pc = "running"
  /\ pos <= NSteps
  /\ LET r == Exec(FS, Steps[pos])
     IN  /\ dirs' = r.dirs
         /\ files' = r.files
         /\ error' = r.err
         /\ IF r.err = "none"
            THEN pc' = "running" /\ pos' = pos + 1
            ELSE pc' = "aborted" /\ pos' = pos
  /\ UNCHANGED <<printed, prevOK, pending, edited, aux>>

\* The next filesystem call fails for a reason of the host.
Fault ==
  /\ pc = "running"
  /\ pos <= NSteps
  /\ \E r \in Faults(FS, Steps[pos]) :
       /\ dirs' = r.dirs
       /\ files' = r.files
       /\ error' = r.err
  /\ pc' = "aborted"
  /\ UNCHANGED <<pos, printed, prevOK, pending, edited, aux>>

\* the message printed before the tree is complete
FinishEarly ==
  /\ pc = "running"
  /\ pos >= 1
  /\ printed' = TRUE
  /\ pc' = "done"
  /\ prevOK' = TRUE
  /\ UNCHANGED <<dirs, files, pos, error, pending, edited, aux>>

\* create_directory_structure returned: print the success message and exit.
Finish ==
  /\ pc = "running"
  /\ pos = NSteps + 1
  /\ printed' = TRUE
  /\ pc' = "done"
  /\ prevOK' = TRUE
  /\ UNCHANGED <<dirs, files, pos, error, pending, edited, aux>>

\* Between two runs somebody writes other content to a generated file.
Edit ==
  /\ pc = "done"
  /\ Cardinality(pending) < MaxEdits
  /\ \E f \in EditTargets \ pending, c \in EditContents :
       /\ f \in DOMAIN files
       /\ files' = [files EXCEPT ![f] = c]
       /\ pending' = pending \cup {f}
  /\ UNCHANGED <<dirs, pc, pos, error, printed, prevOK, edited, aux>>

Next == Start \/ Step \/ Fault \/ Finish \/ Edit

Spec == Init /\ [][Next]_vars

TypeOK ==
  /\ pc \in {"idle", "running", "done", "aborted", "call", "returned", "raised", "perm"}
  /\ pos \in 0..(NSteps + 1)
  /\ printed \in BOOLEAN
  /\ dirs \cap DOMAIN files = {}

(***************************************************************************)
(* create_file on its own: one call on a drawn filesystem, path, content.  *)
(***************************************************************************)
Demo == Under(Outside, {<<"demo">>, <<"demo", "a">>}, Fun({<<"demo", "a", "b">>}, "x"))

CFStates == PreStates \cup {Demo}

CFPaths ==
  {<<"c.txt">>,
   <<"demo", "a", "b", "c.txt">>,
   <<"demo", "c.txt">>,
   <<"other", "README.md">>,
   <<"other">>,
   <<"notes.txt", "z">>,
   Join(BaseDir, <<"README.md">>),
   Join(BaseDir, <<"docs", "API.md">>)}

CFContents == {Default, "hello"}

InitCF ==
  /\ \E fs \in CFStates : dirs = fs.dirs /\ files = fs.files /\ start = fs
  /\ \E p \in CFPaths, c \in CFContents : arg = [path |-> p, content |-> c]
  /\ pc = "call"
  /\ pos = 0
  /\ error = "none"
  /\ printed = FALSE
  /\ prevOK = FALSE
  /\ pending = {}
  /\ edited = {}
  /\ todo = {}
  /\ order = <<>>

CallCreateFile ==
  /\ pc = "call"
  /\ LET r == CreateFile(FS, arg.path, arg.content)
     IN  /\ dirs' = r.dirs
         /\ files' = r.files
         /\ error' = r.err
         /\ pc' = IF r.err = "none" THEN "returned" ELSE "raised"
  /\ UNCHANGED <<pos, printed, prevOK, pending, edited, aux>>

NextCF == CallCreateFile

SpecCF == InitCF /\ [][NextCF]_vars

(***************************************************************************)
(* The calls of the tree in any order: PermLen calls of the run, taken in  *)
(* program order from Steps, executed in an order chosen call by call.     *)
(***************************************************************************)
PermPaths ==
  << Root,
     Join(BaseDir, <<"README.md">>),
     Join(BaseDir, <<"public", "locales", "en">>),
     Join(BaseDir, <<"public", "locales", "en", "common.json">>),
     Join(BaseDir, <<"src", "app", "api", "auth", "login", "route.ts">>),
     Join(BaseDir, DataDir),
     Join(BaseDir, DataFile),
     Join(BaseDir, <<"public", "favicon.ico">>),
     Join(BaseDir, <<"tests", "api">>) >>

IsPermStep(s) == \E k \in 1..PermLen : k <= Len(PermPaths) /\ PermPaths[k] = s.path

PermSteps == SelectSeq(Steps, IsPermStep)

RECURSIVE RunSeq(_, _)
RunSeq(r, seq) ==
  IF seq = <<>> \/ r.err # "none" THEN r
  ELSE RunSeq(Exec(r, Head(seq)), Tail(seq))

InitPerm ==
  /\ \E fs \in PreStates : dirs = fs.dirs /\ files = fs.files /\ start = fs
  /\ todo = 1..Len(PermSteps)
  /\ order = <<>>
  /\ pc = "perm"
  /\ pos = 0
  /\ error = "none"
  /\ printed = FALSE
  /\ prevOK = FALSE
  /\ pending = {}
  /\ edited = {}
  /\ arg = NoArg

PermStep ==
  /\ pc = "perm"
  /\ \E i \in todo :
       LET r == Exec(FS, PermSteps[i])
       IN  /\ dirs' = r.dirs
           /\ files' = r.files
           /\ error' = r.err
           /\ IF r.err = "none"
              THEN pc' = "perm" /\ todo' = todo \ {i} /\ order' = Append(order, i)
              ELSE pc' = "aborted" /\ UNCHANGED <<todo, order>>
  /\ UNCHANGED <<pos, printed, prevOK, pending, edited, arg, start>>

NextPerm == PermStep

SpecPerm == InitPerm /\ [][NextPerm]_vars

(***************************************************************************)
(* Properties.                                                             *)
(***************************************************************************)
License == Join(BaseDir, <<"LICENSE">>)

Readme == Join(BaseDir, <<"README.md">>)

NodeModules == Join(BaseDir, <<"node_modules">>)

TestsLib == Join(BaseDir, <<"tests", "lib">>)

\* the create_file call of the current run on f has returned
Written(f) == \E i \in 1..(pos - 1) : i <= NSteps /\ Steps[i].path = f /\ IsCreateFile(Steps[i])

TreeComplete ==
  /\ Root \in dirs
  /\ DirEntries \subseteq dirs
  /\ FileEntries \subseteq DOMAIN files

\* C1: after a run that completes without error, every file entry of the
\* tree exists, is a regular file and not a directory, and holds exactly the
\* content of its entry, which is the empty string for every entry.
C1_FilesMaterialized ==
  (pc = "done" /\ pending = {}) =>
     /\ \A f \in FileEntries : f \in DOMAIN files /\ f \notin dirs /\ files[f] = ""
     /\ \A i \in 1..NSteps :
          IsCreateFile(Steps[i]) =>
             /\ Steps[i].path \in FileEntries
             /\ Steps[i].content = ""
             /\ files[Steps[i].path] = Steps[i].content

C1_Witness ==
  /\ pc = "done"
  /\ pending = {}
  /\ License \in DOMAIN files
  /\ files[License] = "x"
  /\ files[Readme] = ""

\* C2: after a run that completes without error, every directory entry of
\* the lists exists and is a directory, also the entries under which the
\* tree places no file.
C2_DirsMaterialized ==
  pc = "done" =>
     \A d \in DirEntries : d \in dirs /\ d \notin DOMAIN files

C2_Witness ==
  /\ pc = "done"
  /\ TestsLib \in dirs
  /\ \A f \in DOMAIN files : ~(Len(f) > Len(TestsLib) /\ SubSeq(f, 1, Len(TestsLib)) = TestsLib)

\* C3: a generated file that was written out-of-band between two runs holds
\* the default content (the empty string) again once the create_file call of
\* the rerun on it has returned, hence after the rerun.
C3_RerunDiscardsEdits ==
  (pc \in {"running", "done", "aborted"} /\ pending = {}) =>
     \A f \in edited : (pc = "done" \/ Written(f)) => files[f] = Default

C3_Witness ==
  /\ pc = "done"
  /\ prevOK
  /\ pending = {}
  /\ edited # {}
  /\ \A f \in edited : files[f] = ""

\* C4: a run on the tree an earlier successful run produced raises no error
\* of its own and no call of it changes the set of directories; makedirs on
\* a listed directory that exists is a no-op.
C4_RerunKeepsDirs ==
  /\ [][(prevOK /\ pc = "running") =>
          /\ dirs' = dirs
          /\ error' \in {"none", "OSError"}]_vars
  /\ []((prevOK /\ pc \in {"running", "done"}) =>
          \A i \in 1..NSteps :
             IsMakedirs(Steps[i]) => MakeDirs(FS, Steps[i].path) = Ok(FS))

C4_Witness ==
  /\ prevOK
  /\ pc = "running"
  /\ pos = NSteps + 1
  /\ error = "none"

Present(d, f, s) == IF IsMakedirs(s) THEN s.path \in d ELSE s.path \in DOMAIN f

\* C5 as stated: no file entry is written before every directory entry of
\* the tree has been created.
C5_DirsBeforeFiles ==
  pc = "running" =>
     ((\E i \in 1..(pos - 1) : IsCreateFile(Steps[i]))
        => \A j \in 1..NSteps : IsMakedirs(Steps[j]) => j < pos)

\* C5 amended: a run creates the root first and then the groups in source
\* order (root files, public directories, public files, src directories,
\* src files, data directory, data file, docs files, tests directories): when
\* an entry of a group appears, every entry of every earlier group exists.
C5_GroupOrder ==
  [][pc = "running" =>
       \A k \in 2..Len(Groups) :
          (\E s \in Range(Groups[k]) : Present(dirs', files', s) /\ ~Present(dirs, files, s))
             => \A j \in 1..(k - 1) : \A t \in Range(Groups[j]) : Present(dirs', files', t)]_vars

C5_Witness ==
  /\ pc = "running"
  /\ pos = 3
  /\ Readme \in DOMAIN files
  /\ Join(BaseDir, PublicDirs[1]) \notin dirs
  /\ Join(BaseDir, TestDirs[1]) \notin dirs

\* C6: a call that raises ends the run at that call: nothing is created or
\* written afterwards, and what existed when the call raised stays.
C6_AbortKeepsPartialTree ==
  /\ [](error # "none" => pc = "aborted")
  /\ [][error # "none" => UNCHANGED <<dirs, files, pos>>]_vars
  /\ [][(pc = "running" /\ error' # "none") =>
          /\ pos' = pos
          /\ dirs \subseteq dirs'
          /\ DOMAIN files \subseteq DOMAIN files']_vars

C6_Witness ==
  /\ pc = "aborted"
  /\ error # "none"
  /\ pos > 2
  /\ Readme \in DOMAIN files
  /\ \E d \in DirEntries : d \notin dirs

\* C7: an execution that has ended either completed, with the whole tree in
\* place and the message printed, or aborted with an error and no message;
\* the message is never printed while an entry of the tree is missing.
C7_Outcome ==
  /\ pc = "done" => (printed /\ error = "none" /\ TreeComplete)
  /\ pc = "aborted" => (~printed /\ error # "none")
  /\ printed => TreeComplete

C7_Witness ==
  /\ pc = "done"
  /\ printed
  /\ TreeComplete

\* C8 as stated: for every path that meets no file where a directory is
\* needed and is not itself a directory, create_file returns and leaves the
\* path a regular file holding the content, with its parent directory in
\* place; a path without directory component included.
C8_CreateFileAnyPath ==
  (/\ pc \in {"returned", "raised"}
   /\ arg.path \notin dirs
   /\ \A q \in ProperPrefixes(arg.path) : q \notin DOMAIN files)
    => /\ error = "none"
       /\ arg.path \in DOMAIN files
       /\ files[arg.path] = arg.content
       /\ ProperPrefixes(arg.path) \subseteq dirs

\* C9: if the calls succeed in program order then they succeed in every
\* order and end with the directories, files and contents of program order.
C9_OrderIndependent ==
  LET ref == RunSeq(Ok(start), PermSteps)
  IN  (pc \in {"perm", "aborted"} /\ ref.err = "none") =>
         /\ error = "none"
         /\ pc = "perm"
         /\ todo = {} => (dirs = ref.dirs /\ files = ref.files)

C9_Witness ==
  /\ pc = "perm"
  /\ todo = {}
  /\ Len(order) = Len(PermSteps)
  /\ Len(order) > 1
  /\ order[1] > order[Len(order)]
  /\ Root \notin start.dirs

\* C10: a call of a run creates and changes only paths under the root
\* directory, removes nothing, and leaves every file that exists and is not a
\* file entry of the tree as it was.
C10_Frame ==
  [][pc = "running" =>
       /\ dirs \subseteq dirs'
       /\ DOMAIN files \subseteq DOMAIN files'
       /\ \A p \in DOMAIN files : p \notin FileEntries => files'[p] = files[p]
       /\ \A p \in DOMAIN files : files'[p] # files[p] => p[1] = "wattschain-mlm-platform"
       /\ \A p \in (dirs' \ dirs) \cup (DOMAIN files' \ DOMAIN files) :
            p[1] = "wattschain-mlm-platform"]_vars

C10_Witness ==
  /\ pc = "done"
  /\ files[<<"notes.txt">>] = "x"
  /\ files[<<"other", "README.md">>] = "x"
  /\ License \in DOMAIN files
  /\ files[License] = "x"
  /\ NodeModules \in dirs
  /\ files[Readme] = ""

====
